---- MODULE Spec2Model ----
(***************************************************************************)
(* A model of challtools/utils.py: the docker name deriver, the service    *)
(* formatter, the flag verifier, the image builder and the build / start   *)
(* orchestration over a docker engine.                                     *)
(*                                                                         *)
(* Strings the code slices, concatenates or sanitises are sequences of     *)
(* one-character strings; names that are only compared (paths, network     *)
(* and volume names, service type keys) are plain strings.                 *)
(***************************************************************************)
EXTENDS Integers, Sequences, FiniteSets, TLC

VARIABLES config, engine, last, ncalls

vars == <<config, engine, last, ncalls>>

----------------------------------------------------------------------------
(* Bounds of the model.                                                    *)

\* invocations of build_chall / start_chall / start_solution in one run
MaxCalls == 2

\* services declared by the first container of a deployment
MaxServices == 2

\* the engine may report an error for the n-th image build, n up to this
MaxBuildFail == 2

\* flags of a configuration given to the flag verifier
MaxFlags == 2

\* length of a candidate flag
MaxCandidateLen == 4

\* custom service types of a configuration given to the service formatter
MaxCustomTypes == 2

\* length of the freely chosen head of a title or container name
MaxNameLen == 2

\* the calls on containers of one invocation among which one may fail
MaxFault == 7

----------------------------------------------------------------------------
(* Python string primitives.                                               *)

Min(a, b) == IF a < b THEN a ELSE b

Max(a, b) == IF a > b THEN a ELSE b

\* s[:n]
Prefix(s, n) == SubSeq(s, 1, Min(n, Len(s)))

\* s[start:stop] for start >= 0; a negative stop counts from the end
PySlice(s, start, stop) ==
    LET hi == IF stop < 0 THEN Max(Len(s) + stop, 0) ELSE Min(stop, Len(s))
    IN  IF start >= hi THEN <<>> ELSE SubSeq(s, start + 1, hi)

\* s.startswith(p)
StartsWith(s, p) == Len(p) <= Len(s) /\ SubSeq(s, 1, Len(p)) = p

\* s.endswith(p)
EndsWith(s, p) == Len(p) <= Len(s) /\ SubSeq(s, Len(s) - Len(p) + 1, Len(s)) = p

\* needle in s
Contains(s, needle) ==
    \E i \in 0..(Len(s) - Len(needle)) : SubSeq(s, i + 1, i + Len(needle)) = needle

UpperSeq ==
    <<"A", "B", "C", "D", "E", "F", "G", "H", "I", "J", "K", "L", "M",
      "N", "O", "P", "Q", "R", "S", "T", "U", "V", "W", "X", "Y", "Z">>

LowerSeq ==
    <<"a", "b", "c", "d", "e", "f", "g", "h", "i", "j", "k", "l", "m",
      "n", "o", "p", "q", "r", "s", "t", "u", "v", "w", "x", "y", "z">>

DigitSeq == <<"0", "1", "2", "3", "4", "5", "6", "7", "8", "9">>

HexSeq ==
    <<"0", "1", "2", "3", "4", "5", "6", "7", "8", "9", "a", "b", "c", "d", "e", "f">>

Range(s) == {s[i] : i \in DOMAIN s}

\* the class [A-Za-z0-9_.-]
TagChars == Range(UpperSeq) \cup Range(LowerSeq) \cup Range(DigitSeq) \cup {"_", ".", "-"}

\* the characters a sanitised, lowercased name can hold: [a-z0-9_.-]
LowerTagChars == Range(LowerSeq) \cup Range(DigitSeq) \cup {"_", ".", "-"}

LowerOf ==
    [c \in Range(UpperSeq) |-> LowerSeq[CHOOSE i \in DOMAIN UpperSeq : UpperSeq[i] = c]]

\* c.lower()
LowerChar(c) == IF c \in DOMAIN LowerOf THEN LowerOf[c] ELSE c

\* s.lower()
Lower(s) == [i \in DOMAIN s |-> LowerChar(s[i])]

\* s.replace(" ", "_")
ReplaceSpaces(s) == [i \in DOMAIN s |-> IF s[i] = " " THEN "_" ELSE s[i]]

\* re.sub(r"[^A-Za-z0-9_.-]", "", s)
StripDisallowed(s) == SelectSeq(s, LAMBDA c : c \in TagChars)

\* s.lstrip("_.-")
RECURSIVE LStrip(_)
LStrip(s) ==
    IF s # <<>> /\ Head(s) \in {"_", ".", "-"} THEN LStrip(Tail(s)) ELSE s

\* "_".join(parts)
RECURSIVE JoinUnderscore(_)
JoinUnderscore(parts) ==
    IF Len(parts) = 0 THEN <<>>
    ELSE IF Len(parts) = 1 THEN parts[1]
    ELSE parts[1] \o <<"_">> \o JoinUnderscore(Tail(parts))

----------------------------------------------------------------------------
(* create_docker_name                                                      *)

\* the characters the digest is computed over, in code-point order
CodeTable ==
    <<" ", "!", "-", ".">> \o DigitSeq \o <<":">> \o UpperSeq \o <<"_">> \o LowerSeq
      \o <<"{", "|", "}">>

CodePoint == [c \in Range(CodeTable) |-> CHOOSE i \in DOMAIN CodeTable : CodeTable[i] = c]

CharCode(c) == CodePoint[c]

RECURSIVE HashFold(_, _)
HashFold(s, h) ==
    IF s = <<>> THEN h
    ELSE IF Len(s) = 1 THEN (h * 31 + CharCode(s[1]) + 1) % 16777216
    \* front is never negative: the test has it computed before it is passed on
    ELSE LET front == HashFold(SubSeq(s, 1, Len(s) \div 2), h)
         IN  IF front < 0 THEN front
             ELSE HashFold(SubSeq(s, Len(s) \div 2 + 1, Len(s)), front)

\* hashlib.md5(s.encode()).hexdigest(): 32 lowercase hexadecimal digits that
\* depend on every character of s.  The digest function itself is replaced
\* by a polynomial hash; its length, alphabet and determinism are md5's.
Md5Hex(s) ==
    LET h == HashFold(s, 5381)
    IN  [j \in 1..32 |-> HexSeq[((h \div (16 ^ ((j - 1) % 6))) % 16) + 1]]

\* Sanitize without the final lower()
Sanitize_NoLower(s) == LStrip(StripDisallowed(ReplaceSpaces(s)))

\* the four sanitising statements applied to title and to container_name
Sanitize(s) == Lower(LStrip(StripDisallowed(ReplaceSpaces(s))))

\* container_name and chall_id default to None; None and "" are both falsy
\* and both contribute "" to the digest, so <<>> stands for either
create_docker_name(title, container_name, chall_id) ==
    LET digest == Md5Hex(title \o <<"|">> \o container_name \o <<"|">> \o chall_id)
    IN  IF container_name # <<>>
        THEN JoinUnderscore(<<Prefix(Sanitize(title), 32),
                              Prefix(Sanitize(container_name), 16),
                              Prefix(digest, 16)>>)
        ELSE JoinUnderscore(<<Prefix(Sanitize(title), 32), Prefix(digest, 16)>>)

----------------------------------------------------------------------------
(* Exceptions and results.                                                 *)

\* an exception: its class, what it is about, and the tag / name / exit code
\* its message carries
Exc(kind, what, tag, name, code) ==
    [kind |-> kind, what |-> what, tag |-> tag, name |-> name, code |-> code]

\* no exception raised
NoErr == Exc("ok", "", <<>>, "", 0)

\* raise CriticalException(...)
Critical(what, tag, name, code) == Exc("CriticalException", what, tag, name, code)

----------------------------------------------------------------------------
(* format_user_service                                                     *)

\* a template is a sequence of pieces: literal text and "{name}" placeholders
BuiltinServiceTypes ==
    <<[type |-> "website", user_display |-> <<"{url}">>],
      [type |-> "tcp", user_display |-> <<"nc ", "{host}", " ", "{port}">>]>>

\* string.replace("{" + name + "}", value)
ReplacePlaceholder(string, name, value) ==
    [i \in DOMAIN string |-> IF string[i] = "{" \o name \o "}" THEN value ELSE string[i]]

\* for name, value in kwargs.items(): string = string.replace(...)
RECURSIVE ReplaceAll(_, _)
ReplaceAll(string, kwargs) ==
    IF kwargs = <<>> THEN string
    ELSE ReplaceAll(ReplacePlaceholder(string, kwargs[1][1], kwargs[1][2]), Tail(kwargs))

\* kwargs is the keyword arguments in call order, each <<name, value>>
format_user_service(cfg, service_type, kwargs) ==
    LET service_types == BuiltinServiceTypes \o cfg.custom_service_types
        type_candidate == SelectSeq(service_types, LAMBDA i : i.type = service_type)
    IN  IF type_candidate = <<>>
        THEN [err |-> Exc("ValueError", "service type", <<>>, service_type, 0),
              value |-> <<>>]
        ELSE [err |-> NoErr,
              value |-> ReplaceAll(type_candidate[1].user_display, kwargs)]

\* host="127.0.0.1", port=str(external_port), url=f"http://127.0.0.1:{external_port}"
ServiceKwargs(external_port) ==
    <<<<"host", "127.0.0.1">>,
      <<"port", ToString(external_port)>>,
      <<"url", "http://127.0.0.1:" \o ToString(external_port)>>>>

----------------------------------------------------------------------------
(* get_first_text_flag, validate_flag                                      *)

get_first_text_flag(cfg) ==
    LET texts == SelectSeq(cfg.flags, LAMBDA f : f.type = "text")
    IN  IF texts = <<>> THEN <<>>
        ELSE IF cfg.flag_format_prefix = <<>> THEN texts[1].flag
        ELSE cfg.flag_format_prefix \o texts[1].flag \o cfg.flag_format_suffix

\* one flag predicate against the (possibly stripped) candidate; the regex
\* patterns of the model are literal text, which re.search finds anywhere
FlagMatches(flag, submitted_flag) ==
    \/ flag.type = "text" /\ submitted_flag = flag.flag
    \/ flag.type = "regex" /\ Contains(submitted_flag, flag.flag)

validate_flag(cfg, submitted_flag) ==
    IF /\ cfg.flag_format_prefix # <<>>
       /\ \/ ~StartsWith(submitted_flag, cfg.flag_format_prefix)
          \/ ~EndsWith(submitted_flag, cfg.flag_format_suffix)
    THEN FALSE
    ELSE LET stripped ==
                 IF cfg.flag_format_prefix # <<>>
                 THEN PySlice(submitted_flag, Len(cfg.flag_format_prefix),
                              0 - Len(cfg.flag_format_suffix))
                 ELSE submitted_flag
         IN  \E i \in DOMAIN cfg.flags : FlagMatches(cfg.flags[i], stripped)

----------------------------------------------------------------------------
(* The docker engine and the filesystem, as the code sees them.            *)

\* paths for which Path(image).is_dir() holds
Directories == {"web", "db", "solve"}

\* paths for which Path(image).is_file() holds
Files == {"web.tar"}

\* which branch of build_image a path takes
PathKind(image) ==
    IF image \in Directories THEN "dir"
    ELSE IF image \in Files THEN "file"
    ELSE "other"

\* the repository tag the engine gives an image built with tag=<name>
Latest(name) == name \o <<":", "l", "a", "t", "e", "s", "t">>

\* tag.split(":")[0]
RECURSIVE SplitColonHead(_)
SplitColonHead(tag) ==
    IF tag = <<>> \/ Head(tag) = ":" THEN <<>>
    ELSE <<Head(tag)>> \o SplitColonHead(Tail(tag))

\* [tag.split(":")[0] for img in client.images.list() for tag in img.attrs["RepoTags"]]
TagList(eng) == {SplitColonHead(t) : t \in eng.images}

\* one call made on the engine client or the operating system
Call(op, tag, name, idx) == [op |-> op, tag |-> tag, name |-> name, idx |-> idx]

\* the running state of one invocation: st.err is the exception in flight
Ok(st) == st.err.kind = "ok"

Raise(st, e) == [st EXCEPT !.err = e]

Logged(st, c) == [st EXCEPT !.calls = Append(@, c)]

CountOp(calls, op) == Cardinality({i \in DOMAIN calls : calls[i].op = op})

\* the first of the loop iterations in hits, 0 when there is none
FirstIndex(hits) ==
    IF hits = {} THEN 0 ELSE CHOOSE i \in hits : \A j \in hits : i <= j

get_docker_client(st, env) ==
    LET asked == Logged(st, Call("from_env", <<>>, "", 0))
    IN  IF env.up THEN asked
        ELSE Raise(asked, Critical("docker client", <<>>, "", 0))

----------------------------------------------------------------------------
(* build_image, build_chall                                                *)

\* env.build_fail = n: the engine reports an error for the n-th image build
\* of the invocation (an "error" chunk of the stream, or an APIError)
build_image(image, tag, st, env) ==
    IF PathKind(image) = "dir"
    THEN LET asked == Logged(st, Call("api.build", tag, image, 0))
         IN  IF env.build_fail = CountOp(asked.calls, "api.build")
             THEN Raise(asked, Critical("image build", tag, image, 0))
             ELSE [asked EXCEPT !.eng.images = @ \cup {Latest(tag)}]
    ELSE IF PathKind(image) = "file"
    THEN Raise(st, Exc("NotImplementedError", "image archive", tag, image, 0))
    ELSE st

ContainerTag(cfg, container) ==
    create_docker_name(cfg.title, container.name, cfg.challenge_id)

SolutionTag(cfg) ==
    <<"s", "o", "l", "_">> \o create_docker_name(cfg.title, <<>>, cfg.challenge_id)

\* for container_name, container in config["deployment"]["containers"].items()
RECURSIVE BuildContainers(_, _, _, _)
BuildContainers(cfg, i, st, env) ==
    IF i > Len(cfg.deployment.containers) \/ ~Ok(st) THEN st
    ELSE BuildContainers(cfg, i + 1,
             build_image(cfg.deployment.containers[i].image,
                         ContainerTag(cfg, cfg.deployment.containers[i]), st, env),
             env)

\* CreateNetworks testing each name against the engine, not against the list
RECURSIVE CreateNetworks_AskEngine(_, _, _)
CreateNetworks_AskEngine(networks, network_list, st) ==
    IF networks = <<>> \/ ~Ok(st) THEN st
    ELSE CreateNetworks_AskEngine(Tail(networks), network_list,
             IF networks[1].name \notin st.eng.networks
             THEN [Logged(st, Call("networks.create", <<>>, networks[1].name, 0))
                     EXCEPT !.eng.networks = @ \cup {networks[1].name}]
             ELSE st)

\* for network_name in config["deployment"]["networks"]: create if not listed
RECURSIVE CreateNetworks(_, _, _)
CreateNetworks(networks, network_list, st) ==
    IF networks = <<>> \/ ~Ok(st) THEN st
    ELSE CreateNetworks(Tail(networks), network_list,
             IF networks[1].name \notin network_list
             THEN [Logged(st, Call("networks.create", <<>>, networks[1].name, 0))
                     EXCEPT !.eng.networks = @ \cup {networks[1].name}]
             ELSE st)

\* for volume_name in config["deployment"]["volumes"]: create if not listed
RECURSIVE CreateVolumes(_, _, _)
CreateVolumes(volumes, volume_list, st) ==
    IF volumes = <<>> \/ ~Ok(st) THEN st
    ELSE CreateVolumes(Tail(volumes), volume_list,
             IF volumes[1] \notin volume_list
             THEN [Logged(st, Call("volumes.create", <<>>, volumes[1], 0))
                     EXCEPT !.eng.volumes = @ \cup {volumes[1]}]
             ELSE st)

\* BuildDeployment creating the networks before it builds the images
BuildDeployment_NetworksFirst(cfg, st, env) ==
    LET nets == CreateNetworks(cfg.deployment.networks, st.eng.networks,
                    Logged([st EXCEPT !.did = TRUE],
                           Call("networks.list", <<>>, "", 0)))
        built == BuildContainers(cfg, 1, nets, env)
    IN  IF Ok(built)
        THEN CreateVolumes(cfg.deployment.volumes, built.eng.volumes,
                           Logged(built, Call("volumes.list", <<>>, "", 0)))
        ELSE built

\* the "if config["deployment"]:" block of build_chall
BuildDeployment(cfg, st, env) ==
    LET built == BuildContainers(cfg, 1, [st EXCEPT !.did = TRUE], env)
        nets == IF Ok(built)
                THEN CreateNetworks(cfg.deployment.networks, built.eng.networks,
                                    Logged(built, Call("networks.list", <<>>, "", 0)))
                ELSE built
    IN  IF Ok(nets)
        THEN CreateVolumes(cfg.deployment.volumes, nets.eng.volumes,
                           Logged(nets, Call("volumes.list", <<>>, "", 0)))
        ELSE nets

\* RunBuildScript forgetting to set did_something
RunBuildScript_NoMark(cfg, st, env) ==
    LET ran == Logged(st, Call("Popen", get_first_text_flag(cfg),
                               cfg.custom.build_script, 0))
    IN  IF env.returncode # 0
        THEN Raise(ran, Critical("build script", <<>>, cfg.custom.build_script,
                                 env.returncode))
        ELSE ran

\* RunBuildScript going on whatever the exit code
RunBuildScript_IgnoreExit(cfg, st, env) ==
    Logged([st EXCEPT !.did = TRUE],
           Call("Popen", get_first_text_flag(cfg), cfg.custom.build_script, 0))

\* the "if "build_script" in config["custom"]:" block of build_chall
RunBuildScript(cfg, st, env) ==
    LET ran == Logged([st EXCEPT !.did = TRUE],
                      Call("Popen", get_first_text_flag(cfg), cfg.custom.build_script, 0))
    IN  IF env.returncode # 0
        THEN Raise(ran, Critical("build script", <<>>, cfg.custom.build_script,
                                 env.returncode))
        ELSE ran

\* the "if config["solution_image"]:" block of build_chall; client is bound
\* only where the deployment block bound it
BuildSolution(cfg, st, env) ==
    IF ~st.client
    THEN Raise([st EXCEPT !.did = TRUE],
               Exc("UnboundLocalError", "client", <<>>, "client", 0))
    ELSE build_image(cfg.solution_image, SolutionTag(cfg), [st EXCEPT !.did = TRUE], env)

\* BuildPrologue asking for the client before it looks at the type
BuildPrologue_ClientFirst(cfg, st, env) ==
    LET got == [get_docker_client(st, env) EXCEPT !.client = TRUE]
    IN  IF Ok(got) /\ cfg.deployment.type # "docker"
        THEN Raise(got, Critical("deployment type", <<>>, cfg.deployment.type, 0))
        ELSE got

\* the "if config["deployment"]:" type check and client of build_chall
BuildPrologue(cfg, st, env) ==
    IF cfg.deployment.type # "docker"
    THEN Raise(st, Critical("deployment type", <<>>, cfg.deployment.type, 0))
    ELSE [get_docker_client(st, env) EXCEPT !.client = TRUE]

build_chall(cfg, eng, env) ==
    LET s0 == [eng |-> eng, calls |-> <<>>, err |-> NoErr, did |-> FALSE,
               client |-> FALSE]
        s1 == IF cfg.deployment.present THEN BuildPrologue(cfg, s0, env) ELSE s0
        s2 == IF Ok(s1) /\ "build_script" \in DOMAIN cfg.custom
              THEN RunBuildScript(cfg, s1, env) ELSE s1
        s3 == IF Ok(s2) /\ cfg.deployment.present
              THEN BuildDeployment(cfg, s2, env) ELSE s2
        s4 == IF Ok(s3) /\ cfg.solution_image # ""
              THEN BuildSolution(cfg, s3, env) ELSE s3
    IN  [cfg |-> cfg, eng |-> s4.eng, calls |-> s4.calls, err |-> s4.err,
         ret |-> [did_something |-> Ok(s4) /\ s4.did, containers |-> <<>>,
                  service_strings |-> <<>>]]

----------------------------------------------------------------------------
(* start_chall                                                             *)

\* ports = {}: the empty internal -> external mapping
NoPorts == [p \in {} |-> 0]

\* ports[internal_port] = external_port
SetPort(ports, internal_port, external_port) ==
    [p \in DOMAIN ports \cup {internal_port} |->
        IF p = internal_port THEN external_port ELSE ports[p]]

\* the first port the allocator hands out
FirstPort == 50000

\* StartServices advancing the cursor for every service, explicit port or not
RECURSIVE StartServices_AlwaysAdvance(_, _, _, _)
StartServices_AlwaysAdvance(st, ci, si, ports) ==
    IF si > Len(st.cfg.deployment.containers[ci].services) \/ ~Ok(st)
    THEN [st |-> st, ports |-> ports]
    ELSE LET service == st.cfg.deployment.containers[ci].services[si]
             fresh == "external_port" \notin DOMAIN service
             assigned == IF fresh
                         THEN service @@ [external_port |-> st.available_port]
                         ELSE service
             st1 == [st EXCEPT
                       !.cfg.deployment.containers[ci].services[si] = assigned,
                       !.available_port = @ + 1]
             ports1 == SetPort(ports, assigned.internal_port, assigned.external_port)
             fmt == format_user_service(st1.cfg, assigned.type,
                                        ServiceKwargs(assigned.external_port))
             st2 == IF fmt.err.kind = "ok"
                    THEN [st1 EXCEPT !.service_strings = Append(@, fmt.value)]
                    ELSE Raise(st1, fmt.err)
         IN  StartServices_AlwaysAdvance(st2, ci, si + 1, ports1)

\* the service loop of start_chall for container ci, from service si on:
\* assigns external_port in the configuration itself, fills ports and
\* appends one service string per service
RECURSIVE StartServices(_, _, _, _)
StartServices(st, ci, si, ports) ==
    IF si > Len(st.cfg.deployment.containers[ci].services) \/ ~Ok(st)
    THEN [st |-> st, ports |-> ports]
    ELSE LET service == st.cfg.deployment.containers[ci].services[si]
             fresh == "external_port" \notin DOMAIN service
             assigned == IF fresh
                         THEN service @@ [external_port |-> st.available_port]
                         ELSE service
             st1 == [st EXCEPT
                       !.cfg.deployment.containers[ci].services[si] = assigned,
                       !.available_port = IF fresh THEN @ + 1 ELSE @]
             ports1 == SetPort(ports, assigned.internal_port, assigned.external_port)
             fmt == format_user_service(st1.cfg, assigned.type,
                                        ServiceKwargs(assigned.external_port))
             st2 == IF fmt.err.kind = "ok"
                    THEN [st1 EXCEPT !.service_strings = Append(@, fmt.value)]
                    ELSE Raise(st1, fmt.err)
         IN  StartServices(st2, ci, si + 1, ports1)

\* for extra in container_config.get("extra_exposed_ports", [])
RECURSIVE ExtraPorts(_, _)
ExtraPorts(extras, ports) ==
    IF extras = <<>> THEN ports
    ELSE ExtraPorts(Tail(extras),
                    SetPort(ports, extras[1].internal_port, extras[1].external_port))

\* client.containers.create(...): the engine's record of a container
NewContainer(tag, ports, network_mode, command) ==
    [image |-> tag, ports |-> ports, network_mode |-> network_mode,
     command |-> command, networks |-> {}, started |-> FALSE]

\* the calls on containers an engine error can interrupt
EngineOps == {"containers.create", "network.connect", "container.start"}

\* one call on the engine: st.fault = n makes the n-th such call of the
\* invocation raise docker.errors.APIError instead of taking effect
Attempt(st, c) ==
    LET asked == Logged(st, c)
    IN  IF st.fault = Cardinality({i \in DOMAIN asked.calls :
                                      asked.calls[i].op \in EngineOps})
        THEN Raise(asked, Exc("APIError", "engine", c.tag, c.name, 0))
        ELSE asked

\* ConnectNetworks attaching the container to every declared network
RECURSIVE ConnectNetworks_All(_, _, _, _)
ConnectNetworks_All(networks, container_name, idx, st) ==
    IF networks = <<>> \/ ~Ok(st) THEN st
    ELSE ConnectNetworks_All(Tail(networks), container_name, idx,
             LET asked == Attempt(st, Call("network.connect", <<>>,
                                           networks[1].name, idx))
             IN  IF Ok(asked)
                 THEN [asked EXCEPT !.eng.containers[idx].networks =
                                        @ \cup {networks[1].name}]
                 ELSE asked)

\* for network, network_containers in ...: client.networks.get(network).connect(container)
RECURSIVE ConnectNetworks(_, _, _, _)
ConnectNetworks(networks, container_name, idx, st) ==
    IF networks = <<>> \/ ~Ok(st) THEN st
    ELSE ConnectNetworks(Tail(networks), container_name, idx,
             IF container_name \in networks[1].members
             THEN LET asked == Attempt(st, Call("network.connect", <<>>,
                                                networks[1].name, idx))
                  IN  IF Ok(asked)
                      THEN [asked EXCEPT !.eng.containers[idx].networks =
                                             @ \cup {networks[1].name}]
                      ELSE asked
             ELSE st)

\* one iteration of the container loop of start_chall
StartContainer(st, ci) ==
    LET container_config == st.cfg.deployment.containers[ci]
        tag == ContainerTag(st.cfg, container_config)
        served == StartServices(st, ci, 1, NoPorts)
        ports == ExtraPorts(container_config.extra_exposed_ports, served.ports)
        idx == Len(served.st.eng.containers) + 1
        asked == Attempt(served.st, Call("containers.create", tag, "", idx))
        created == [asked EXCEPT !.eng.containers =
                                     Append(@, NewContainer(tag, ports, "default", <<>>))]
        connected == ConnectNetworks(st.cfg.deployment.networks, container_config.name,
                                     idx, created)
        starting == Attempt(connected, Call("container.start", tag, "", idx))
        started == [starting EXCEPT !.eng.containers[idx].started = TRUE,
                                    !.containers = Append(@, idx)]
    IN  IF ~Ok(served.st) THEN served.st
        ELSE IF ~Ok(asked) THEN asked
        ELSE IF ~Ok(connected) THEN connected
        ELSE IF ~Ok(starting) THEN starting
        ELSE started

\* StartContainers stopping, when a container fails, those it had started
RECURSIVE StartContainers_Rollback(_, _)
StartContainers_Rollback(st, ci) ==
    IF ci > Len(st.cfg.deployment.containers) \/ ~Ok(st) THEN st
    ELSE LET next == StartContainer(st, ci)
         IN  IF Ok(next) THEN StartContainers_Rollback(next, ci + 1)
             ELSE [next EXCEPT !.eng.containers =
                      [i \in DOMAIN @ |->
                          IF i \in Range(st.containers)
                          THEN [@[i] EXCEPT !.started = FALSE] ELSE @[i]]]

\* for container_name, container_config in config["deployment"]["containers"].items()
RECURSIVE StartContainers(_, _)
StartContainers(st, ci) ==
    IF ci > Len(st.cfg.deployment.containers) \/ ~Ok(st) THEN st
    ELSE StartContainers(StartContainer(st, ci), ci + 1)

\* CheckPrerequisites without its volume loop
CheckPrerequisites_NoVolumeCheck(cfg, st) ==
    LET tag_list == TagList(st.eng)
        bad_image == FirstIndex({i \in DOMAIN cfg.deployment.containers :
                        ContainerTag(cfg, cfg.deployment.containers[i]) \notin tag_list})
        bad_network == FirstIndex({i \in DOMAIN cfg.deployment.networks :
                        cfg.deployment.networks[i].name \notin st.eng.networks})
        listed1 == Logged(st, Call("images.list", <<>>, "", 0))
        listed2 == Logged(listed1, Call("networks.list", <<>>, "", 0))
    IN  IF bad_image # 0
        THEN Raise(listed1, Critical("image",
                 ContainerTag(cfg, cfg.deployment.containers[bad_image]), "", 0))
        ELSE IF bad_network # 0
        THEN Raise(listed2, Critical("network", <<>>,
                                     cfg.deployment.networks[bad_network].name, 0))
        ELSE listed2

\* CheckPrerequisites creating the networks it misses, as the build phase does
CheckPrerequisites_CreatesNetworks(cfg, st) ==
    LET tag_list == TagList(st.eng)
        bad_image == FirstIndex({i \in DOMAIN cfg.deployment.containers :
                        ContainerTag(cfg, cfg.deployment.containers[i]) \notin tag_list})
        listed1 == Logged(st, Call("images.list", <<>>, "", 0))
        listed2 == Logged(listed1, Call("networks.list", <<>>, "", 0))
        made == CreateNetworks(cfg.deployment.networks, st.eng.networks, listed2)
        bad_volume == FirstIndex({i \in DOMAIN cfg.deployment.volumes :
                        cfg.deployment.volumes[i] \notin st.eng.volumes})
        listed3 == Logged(made, Call("volumes.list", <<>>, "", 0))
    IN  IF bad_image # 0
        THEN Raise(listed1, Critical("image",
                 ContainerTag(cfg, cfg.deployment.containers[bad_image]), "", 0))
        ELSE IF bad_volume # 0
        THEN Raise(listed3, Critical("volume", <<>>,
                                     cfg.deployment.volumes[bad_volume], 0))
        ELSE listed3

\* the three prerequisite loops of start_chall: images, networks, volumes
CheckPrerequisites(cfg, st) ==
    LET tag_list == TagList(st.eng)
        bad_image == FirstIndex({i \in DOMAIN cfg.deployment.containers :
                        ContainerTag(cfg, cfg.deployment.containers[i]) \notin tag_list})
        network_list == st.eng.networks
        bad_network == FirstIndex({i \in DOMAIN cfg.deployment.networks :
                        cfg.deployment.networks[i].name \notin network_list})
        volume_list == st.eng.volumes
        bad_volume == FirstIndex({i \in DOMAIN cfg.deployment.volumes :
                        cfg.deployment.volumes[i] \notin volume_list})
        listed1 == Logged(st, Call("images.list", <<>>, "", 0))
        listed2 == Logged(listed1, Call("networks.list", <<>>, "", 0))
        listed3 == Logged(listed2, Call("volumes.list", <<>>, "", 0))
    IN  IF bad_image # 0
        THEN Raise(listed1, Critical("image",
                 ContainerTag(cfg, cfg.deployment.containers[bad_image]), "", 0))
        ELSE IF bad_network # 0
        THEN Raise(listed2, Critical("network", <<>>,
                                     cfg.deployment.networks[bad_network].name, 0))
        ELSE IF bad_volume # 0
        THEN Raise(listed3, Critical("volume", <<>>,
                                     cfg.deployment.volumes[bad_volume], 0))
        ELSE listed3

\* what an invocation hands back: the exception or the return value, and
\* the configuration and engine as it leaves them
Outcome(st, did_something) ==
    [cfg |-> st.cfg, eng |-> st.eng, calls |-> st.calls, err |-> st.err,
     ret |-> [did_something |-> did_something,
              containers |-> IF Ok(st) THEN st.containers ELSE <<>>,
              service_strings |-> IF Ok(st) THEN st.service_strings ELSE <<>>]]

start_chall(cfg, eng, env) ==
    LET s0 == [cfg |-> cfg, eng |-> eng, calls |-> <<>>, err |-> NoErr,
               containers |-> <<>>, service_strings |-> <<>>,
               available_port |-> FirstPort, fault |-> env.fault]
        s1 == get_docker_client(s0, env)
        s2 == IF Ok(s1) THEN CheckPrerequisites(cfg, s1) ELSE s1
        s3 == IF Ok(s2) THEN StartContainers(s2, 1) ELSE s2
    IN  IF ~cfg.deployment.present \/ cfg.deployment.containers = <<>>
        THEN Outcome(s0, FALSE)
        ELSE IF cfg.deployment.type # "docker"
        THEN Outcome(Raise(s0, Critical("deployment type", <<>>,
                                        cfg.deployment.type, 0)), FALSE)
        ELSE Outcome(s3, FALSE)

----------------------------------------------------------------------------
(* start_solution                                                          *)

\* for predefined_service in config["predefined_services"]: the loop body
\* reads service["type"], and service is a local that is bound only by the
\* later loop over the container services
PredefinedServices(st) ==
    IF st.cfg.predefined_services = <<>> THEN st
    ELSE Raise(st, Exc("UnboundLocalError", "service", <<>>, "service", 0))

\* the service loop of start_solution for container ci, from service si on
RECURSIVE SolutionServices(_, _, _)
SolutionServices(st, ci, si) ==
    IF si > Len(st.cfg.deployment.containers[ci].services) \/ ~Ok(st) THEN st
    ELSE LET service == st.cfg.deployment.containers[ci].services[si]
             fresh == "external_port" \notin DOMAIN service
             assigned == IF fresh
                         THEN service @@ [external_port |-> st.available_port]
                         ELSE service
             st1 == [st EXCEPT
                       !.cfg.deployment.containers[ci].services[si] = assigned,
                       !.available_port = IF fresh THEN @ + 1 ELSE @]
             fmt == format_user_service(st1.cfg, assigned.type,
                                        ServiceKwargs(assigned.external_port))
             st2 == IF fmt.err.kind = "ok"
                    THEN [st1 EXCEPT !.service_strings = Append(@, fmt.value)]
                    ELSE Raise(st1, fmt.err)
         IN  SolutionServices(st2, ci, si + 1)

\* for container_name, container_config in config["deployment"]["containers"].items()
RECURSIVE SolutionContainers(_, _)
SolutionContainers(st, ci) ==
    IF ~Ok(st) THEN st
    ELSE IF ~st.cfg.deployment.present
    THEN Raise(st, Exc("TypeError", "deployment", <<>>, "deployment", 0))
    ELSE IF ci > Len(st.cfg.deployment.containers) THEN st
    ELSE SolutionContainers(SolutionServices(st, ci, 1), ci + 1)

\* client.containers.create(solution_tag, network="host", command=...); start()
RunSolution(st) ==
    LET tag == SolutionTag(st.cfg)
        idx == Len(st.eng.containers) + 1
        asked == Attempt(st, Call("containers.create", tag, "", idx))
        created == [asked EXCEPT !.eng.containers =
                                     Append(@, NewContainer(tag, NoPorts, "host",
                                                            st.service_strings))]
        starting == Attempt(created, Call("container.start", tag, "", idx))
    IN  IF ~Ok(asked) THEN asked
        ELSE IF ~Ok(starting) THEN starting
        ELSE [starting EXCEPT !.eng.containers[idx].started = TRUE,
                              !.containers = Append(@, idx)]

\* the solution image existence check of start_solution
CheckSolutionImage(st) ==
    LET listed == Logged(st, Call("images.list", <<>>, "", 0))
    IN  IF SolutionTag(st.cfg) \notin TagList(st.eng)
        THEN Raise(listed, Critical("solution image", SolutionTag(st.cfg), "", 0))
        ELSE listed

start_solution(cfg, eng, env) ==
    LET s0 == [cfg |-> cfg, eng |-> eng, calls |-> <<>>, err |-> NoErr,
               containers |-> <<>>, service_strings |-> <<>>,
               available_port |-> FirstPort, fault |-> env.fault]
        s1 == get_docker_client(s0, env)
        s2 == IF Ok(s1) THEN CheckSolutionImage(s1) ELSE s1
        s3 == IF Ok(s2) THEN PredefinedServices(s2) ELSE s2
        s4 == SolutionContainers(s3, 1)
        s5 == IF Ok(s4) THEN RunSolution(s4) ELSE s4
    IN  IF cfg.solution_image = "" THEN Outcome(s0, FALSE) ELSE Outcome(s5, FALSE)

----------------------------------------------------------------------------
(* Configurations, as the validator hands them to the functions above.     *)

Title == <<"P", "w", "n", " ", "M", "e">>

ChallId == <<"c", "1">>

Web == <<"w", "e", "b">>

Db == <<"d", "b">>

SeqsUpTo(S, n) == UNION {[1..k -> S] : k \in 0..n}

NoDeployment ==
    [present |-> FALSE, type |-> "", containers |-> <<>>, networks |-> <<>>,
     volumes |-> <<>>]

Deployment(type, containers, networks, volumes) ==
    [present |-> TRUE, type |-> type, containers |-> containers,
     networks |-> networks, volumes |-> volumes]

Container(name, image, services, extras) ==
    [name |-> name, image |-> image, services |-> services,
     extra_exposed_ports |-> extras]

AutoTcp == [type |-> "tcp", internal_port |-> 1337]

AutoSsh == [type |-> "ssh", internal_port |-> 22]

FixedWebsite == [type |-> "website", internal_port |-> 80, external_port |-> 12345]

SshType == [type |-> "ssh", user_display |-> <<"ssh -p ", "{port}", " ", "{host}">>]

Networks == <<[name |-> "frontend", members |-> {Web}],
              [name |-> "backend", members |-> {Web, Db}]>>

BaseConfig ==
    [title |-> Title, challenge_id |-> ChallId,
     flag_format_prefix |-> <<"f", "{">>, flag_format_suffix |-> <<"}">>,
     flags |-> <<[type |-> "text", flag |-> <<"a", "b">>]>>,
     custom_service_types |-> <<>>, predefined_services |-> <<>>,
     deployment |-> NoDeployment, solution_image |-> "",
     custom |-> [author |-> "me"]]

WithScript == [author |-> "me", build_script |-> "build.sh"]

\* build script, deployment and solution image present or absent, and the
\* kinds of solution image source
BuildConfigs ==
    {[BaseConfig EXCEPT !.deployment = d, !.solution_image = s, !.custom = c] :
        d \in {NoDeployment,
               Deployment("kubernetes", <<>>, <<>>, <<>>),
               Deployment("kubernetes", <<Container(Web, "web", <<AutoTcp>>, <<>>)>>,
                          <<>>, <<>>),
               Deployment("docker", <<Container(Web, "web", <<AutoTcp>>, <<>>),
                                       Container(Db, "db", <<>>, <<>>)>>,
                          Networks, <<"data">>)},
        s \in {"", "solve", "web.tar", "solver:1.0"},
        c \in {BaseConfig.custom, WithScript}}

\* the kinds of container image source, networks and volumes
ResourceConfigs ==
    {[BaseConfig EXCEPT !.deployment = Deployment("docker", cs, ns, vs)] :
        cs \in {<<>>,
                <<Container(Web, "web", <<>>, <<>>)>>,
                <<Container(Web, "nginx:1.25", <<>>, <<>>)>>,
                <<Container(Web, "web.tar", <<>>, <<>>)>>,
                <<Container(Web, "web", <<>>, <<>>), Container(Db, "db", <<>>, <<>>)>>,
                <<Container(Web, "web", <<>>, <<>>),
                  Container(Db, "postgres:16", <<>>, <<>>)>>},
        ns \in {<<>>, Networks},
        vs \in {<<>>, <<"data">>, <<"data", "data">>}}

\* services with and without an explicit external port, over two containers
PortConfigs ==
    {[BaseConfig EXCEPT
        !.deployment = Deployment("docker",
            <<Container(Web, "web", ws, <<>>),
              Container(Db, "db", ds,
                        <<[internal_port |-> 5432, external_port |-> 5432]>>)>>,
            Networks, <<>>)] :
        ws \in SeqsUpTo({AutoTcp, FixedWebsite, AutoSsh}, MaxServices),
        ds \in {<<>>, <<AutoTcp>>, <<AutoTcp, FixedWebsite>>, <<FixedWebsite, AutoTcp>>,
                <<AutoTcp, AutoSsh>>}}

\* a solution image with predefined services and custom service types
SolutionConfigs ==
    {[BaseConfig EXCEPT !.deployment = d, !.solution_image = "solve",
                        !.predefined_services = ps, !.custom_service_types = ts] :
        d \in {NoDeployment,
               Deployment("docker",
                          <<Container(Web, "web", <<AutoTcp, AutoSsh>>, <<>>)>>,
                          <<>>, <<>>)},
        ps \in {<<>>, <<<<<<"type", "tcp">>, <<"host", "ctf.example">>,
                        <<"port", "31337">>>>>>},
        ts \in {<<>>, <<SshType>>}}

Configs == BuildConfigs \cup ResourceConfigs \cup PortConfigs \cup SolutionConfigs

----------------------------------------------------------------------------
(* Engine states an invocation may find.                                   *)

WebTag == create_docker_name(Title, Web, ChallId)

DbTag == create_docker_name(Title, Db, ChallId)

ForeignImage ==
    <<"l", "o", "c", "a", "l", ":", "5", "0", "0", "0", "-", "x", ":", "v", "1">>

AllImages ==
    {Latest(WebTag), Latest(DbTag), ForeignImage,
     Latest(<<"s", "o", "l", "_">> \o create_docker_name(Title, <<>>, ChallId))}

Engine(images, networks, volumes) ==
    [images |-> images, networks |-> networks, volumes |-> volumes,
     containers |-> <<>>]

EngineInits ==
    {Engine({}, {}, {}),
     Engine({Latest(WebTag), ForeignImage}, {"frontend", "backend"}, {"data"}),
     Engine(AllImages, {"frontend"}, {"data"}),
     Engine(AllImages, {"frontend", "backend"}, {})}

\* what the environment decides for one invocation
Env(up, returncode, build_fail, fault) ==
    [up |-> up, returncode |-> returncode, build_fail |-> build_fail,
     fault |-> fault]

\* engine unreachable, or build script failing, or the n-th image build
\* failing, or nothing failing
BuildEnvs ==
    {Env(FALSE, 0, 0, 0), Env(TRUE, 1, 0, 0), Env(TRUE, 2, 0, 0)}
        \cup {Env(TRUE, 0, n, 0) : n \in 0..MaxBuildFail}

StartEnvs == {Env(up, 0, 0, 0) : up \in BOOLEAN}

\* the n-th call on a container failing, or nothing failing
FaultEnvs == {Env(TRUE, 0, 0, n) : n \in 0..MaxFault}

----------------------------------------------------------------------------
(* The state machine: one action per public function.                      *)

NoRet == [did_something |-> FALSE, containers |-> <<>>, service_strings |-> <<>>]

\* last: the most recent invocation, with the configuration, engine and
\* environment it was given, the calls it made, and the exception or value
\* it ended with
Init ==
    /\ config \in Configs
    /\ engine \in EngineInits
    /\ ncalls = 0
    /\ last = [op |-> "none", cfg0 |-> config, eng0 |-> engine,
               env |-> Env(TRUE, 0, 0, 0), calls |-> <<>>, err |-> NoErr, ret |-> NoRet]

Invoke(op, env, out) ==
    /\ ncalls < MaxCalls
    /\ ncalls' = ncalls + 1
    /\ config' = out.cfg
    /\ engine' = out.eng
    /\ last' = [op |-> op, cfg0 |-> config, eng0 |-> engine, env |-> env,
                calls |-> out.calls, err |-> out.err, ret |-> out.ret]

BuildChall == \E env \in BuildEnvs : Invoke("build_chall", env, build_chall(config, engine, env))

StartChall == \E env \in StartEnvs : Invoke("start_chall", env, start_chall(config, engine, env))

StartSolution ==
    \E env \in StartEnvs : Invoke("start_solution", env, start_solution(config, engine, env))

Next == BuildChall \/ StartChall \/ StartSolution

Spec == Init /\ [][Next]_vars

----------------------------------------------------------------------------
(* Properties of start_chall and build_chall.                              *)

CallOps(calls) == {calls[i].op : i \in DOMAIN calls}

\* a tag is among the engine's image tags: some image carries <tag>:<version>
TagPresent(eng, tag) == \E t \in eng.images : StartsWith(t, tag \o <<":">>)

MissingTags(cfg, eng) ==
    {ContainerTag(cfg, cfg.deployment.containers[i]) :
        i \in DOMAIN cfg.deployment.containers}
      \ {t \in {ContainerTag(cfg, cfg.deployment.containers[i]) :
                    i \in DOMAIN cfg.deployment.containers} : TagPresent(eng, t)}

MissingNetworks(cfg, eng) ==
    {cfg.deployment.networks[i].name : i \in DOMAIN cfg.deployment.networks}
      \ eng.networks

MissingVolumes(cfg, eng) == Range(cfg.deployment.volumes) \ eng.volumes

\* start_chall ran on a docker deployment with at least one container and
\* reached the engine
StartedOnDocker ==
    /\ last.op = "start_chall"
    /\ last.cfg0.deployment.present
    /\ last.cfg0.deployment.type = "docker"
    /\ last.cfg0.deployment.containers # <<>>
    /\ last.err.what # "docker client"

SomethingMissing ==
    \/ MissingTags(last.cfg0, last.eng0) # {}
    \/ MissingNetworks(last.cfg0, last.eng0) # {}
    \/ MissingVolumes(last.cfg0, last.eng0) # {}

\* C1: when start_chall runs on a docker deployment with at least one
\* container and a declared container's tag, a declared network or a declared
\* volume is absent from the engine, it fails with a CriticalException that
\* names one of the absent tags / networks / volumes, and it has created and
\* started no container.
C1_MissingPrerequisiteIsFatal ==
    (StartedOnDocker /\ SomethingMissing) =>
        /\ last.err.kind = "CriticalException"
        /\ \/ last.err.what = "image"
              /\ last.err.tag \in MissingTags(last.cfg0, last.eng0)
           \/ last.err.what = "network"
              /\ last.err.name \in MissingNetworks(last.cfg0, last.eng0)
           \/ last.err.what = "volume"
              /\ last.err.name \in MissingVolumes(last.cfg0, last.eng0)
        /\ CallOps(last.calls) \cap {"containers.create", "container.start"} = {}
        /\ engine.containers = last.eng0.containers

\* start_chall found every image and network and failed on the missing volume
C1_Witness ==
    /\ StartedOnDocker
    /\ MissingTags(last.cfg0, last.eng0) = {}
    /\ MissingNetworks(last.cfg0, last.eng0) = {}
    /\ MissingVolumes(last.cfg0, last.eng0) = {"data"}
    /\ Len(last.cfg0.deployment.containers) = 2
    /\ last.err.what = "volume"

\* C2 (as claimed): after build_chall returns successfully, the image
\* existence check of start_chall on the same configuration and the engine
\* as build left it succeeds for every declared container, whatever the kind
\* of image source.
C2_StartFindsWhatBuildMade ==
    (last.op = "build_chall" /\ last.err.kind = "ok" /\ config.deployment.present) =>
        CheckPrerequisites(config,
            [eng |-> engine, calls |-> <<>>, err |-> NoErr]).err.what # "image"

\* C3: start_chall, failing or not, leaves the engine's images, networks and
\* volumes as they were, and the only calls it makes that change the engine
\* are container create, network connect and container start.
C3_StartCreatesNoResources ==
    last.op = "start_chall" =>
        /\ engine.images = last.eng0.images
        /\ engine.networks = last.eng0.networks
        /\ engine.volumes = last.eng0.volumes
        /\ CallOps(last.calls) \subseteq
              {"from_env", "images.list", "networks.list", "volumes.list",
               "containers.create", "network.connect", "container.start"}

\* start_chall created, connected and started containers
C3_Witness ==
    /\ last.op = "start_chall"
    /\ last.err.kind = "ok"
    /\ {"containers.create", "network.connect", "container.start"}
          \subseteq CallOps(last.calls)
    /\ Len(engine.containers) > Len(last.eng0.containers)

\* the services of a deployment as (container, service) positions, and the
\* declared order on them
Positions(cfg) ==
    UNION {{<<ci, si>> : si \in DOMAIN cfg.deployment.containers[ci].services} :
              ci \in DOMAIN cfg.deployment.containers}

NotAfter(p, q) == p[1] < q[1] \/ (p[1] = q[1] /\ p[2] <= q[2])

ServiceAt(cfg, p) == cfg.deployment.containers[p[1]].services[p[2]]

LacksPort(cfg, p) == "external_port" \notin DOMAIN ServiceAt(cfg, p)

\* k: how many services without an explicit port are declared up to p, p included
AutoRank(cfg, p) ==
    Cardinality({q \in Positions(cfg) : NotAfter(q, p) /\ LacksPort(cfg, q)})

\* the service strings of a deployment whose ports are all assigned
RECURSIVE Rendered(_, _, _)
Rendered(cfg, ci, si) ==
    IF ci > Len(cfg.deployment.containers) THEN <<>>
    ELSE IF si > Len(cfg.deployment.containers[ci].services)
    THEN Rendered(cfg, ci + 1, 1)
    ELSE <<format_user_service(cfg, ServiceAt(cfg, <<ci, si>>).type,
               ServiceKwargs(ServiceAt(cfg, <<ci, si>>).external_port)).value>>
           \o Rendered(cfg, ci, si + 1)

\* the last service or extra port of container ci that maps internal port ip
LastMapping(cfg, ci, ip) ==
    LET c == cfg.deployment.containers[ci]
        all == c.services \o c.extra_exposed_ports
        hits == {i \in DOMAIN all : all[i].internal_port = ip}
    IN  all[CHOOSE i \in hits : \A j \in hits : j <= i].external_port

\* C4: in one start_chall invocation the k-th service, in container then
\* service order, that lacks an explicit external_port gets 50000 + (k - 1);
\* a service with an explicit external_port keeps it and does not advance
\* the cursor; the cursor is shared by all containers.  On success every
\* service has its port, the containers are bound to these ports and the
\* service strings carry them.
C4_PortsInDeclaredOrder ==
    (last.op = "start_chall" /\ last.cfg0.deployment.present) =>
        /\ \A p \in Positions(last.cfg0) :
              IF LacksPort(last.cfg0, p)
              THEN /\ ~LacksPort(config, p) =>
                         ServiceAt(config, p) =
                            ServiceAt(last.cfg0, p)
                               @@ [external_port |-> 50000 + (AutoRank(last.cfg0, p) - 1)]
                   /\ last.err.kind = "ok" => ~LacksPort(config, p)
              ELSE ServiceAt(config, p) = ServiceAt(last.cfg0, p)
        /\ (last.err.kind = "ok" /\ last.ret.containers # <<>>) =>
              /\ last.ret.service_strings = Rendered(config, 1, 1)
              /\ \A p \in Positions(config) :
                    engine.containers[last.ret.containers[p[1]]]
                          .ports[ServiceAt(config, p).internal_port]
                       = LastMapping(config, p[1], ServiceAt(config, p).internal_port)

\* three services without a port over two containers, the third after a
\* service with an explicit port
C4_Witness ==
    /\ last.op = "start_chall"
    /\ last.err.kind = "ok"
    /\ Len(last.cfg0.deployment.containers) = 2
    /\ last.cfg0.deployment.containers[1].services = <<AutoTcp, AutoTcp>>
    /\ last.cfg0.deployment.containers[2].services = <<FixedWebsite, AutoTcp>>
    /\ config.deployment.containers[2].services[2].external_port = 50002
    /\ config.deployment.containers[2].services[1].external_port = 12345

NothingDeclared(cfg) ==
    /\ "build_script" \notin DOMAIN cfg.custom
    /\ ~cfg.deployment.present
    /\ cfg.solution_image = ""

\* C5 (as claimed): for a configuration that declares a solution image,
\* with or without a deployment or a build script, build_chall (the engine
\* reachable where it is asked for, the build script and the image builds
\* succeeding, no image archive involved) returns true, and a solution
\* build directory is built under "sol_" + create_docker_name(title,
\* chall_id=challenge_id).
C5_SolutionImageBuilt ==
    (/\ last.op = "build_chall"
     /\ last.cfg0.solution_image # ""
     /\ last.err.what \notin {"deployment type", "docker client", "build script",
                              "image build", "image archive"}) =>
        /\ last.err.kind = "ok"
        /\ last.ret.did_something
        /\ PathKind(last.cfg0.solution_image) = "dir" =>
              /\ Call("api.build", SolutionTag(last.cfg0), last.cfg0.solution_image, 0)
                    \in Range(last.calls)
              /\ TagPresent(engine, SolutionTag(last.cfg0))

\* C6: build_chall returns false exactly when the configuration declares no
\* build script, no deployment and no solution image, and then it makes no
\* engine call and runs no subprocess; every other run that returns returns
\* true.
C6_DidSomething ==
    last.op = "build_chall" =>
        /\ NothingDeclared(last.cfg0) =>
              /\ last.err.kind = "ok"
              /\ ~last.ret.did_something
              /\ last.calls = <<>>
              /\ engine = last.eng0
        /\ (last.err.kind = "ok" /\ ~NothingDeclared(last.cfg0)) =>
              last.ret.did_something

\* build_chall returned false on the empty configuration
C6_Witness ==
    /\ last.op = "build_chall"
    /\ NothingDeclared(last.cfg0)
    /\ last.err.kind = "ok"
    /\ ~last.ret.did_something

----------------------------------------------------------------------------
(* Properties of start_solution and of the error kinds.                    *)

\* the value a predefined service gives for a key
ValueOf(kwargs, key) ==
    kwargs[CHOOSE i \in DOMAIN kwargs : kwargs[i][1] = key][2]

\* one rendered string per predefined service, each of its own type
RenderedPredefined(cfg) ==
    [i \in DOMAIN cfg.predefined_services |->
        format_user_service(cfg, ValueOf(cfg.predefined_services[i], "type"),
                            cfg.predefined_services[i]).value]

\* C8 (as claimed): with the solution image built, the engine reachable, a
\* deployment declared and every service type known, start_solution hands
\* the solution container one rendered string per predefined service
\* followed by one per container service in declared order, also when
\* predefined_services is not empty.
C8_SolutionCommand ==
    (/\ last.op = "start_solution"
     /\ last.cfg0.solution_image # ""
     /\ last.cfg0.deployment.present
     /\ last.err.what \notin {"docker client", "solution image", "service type"}) =>
        /\ last.err.kind = "ok"
        /\ Len(last.ret.containers) = 1
        /\ engine.containers[last.ret.containers[1]].command
              = RenderedPredefined(last.cfg0) \o Rendered(config, 1, 1)

\* C10 (as claimed): each of the listed failure conditions (unsupported
\* deployment type, engine unreachable, build script exit code, image build
\* error, image archive, missing image / network / volume, unknown service
\* type) reaches the invoker as a CriticalException.
C10_OneFatalKind ==
    last.err.what \in {"deployment type", "docker client", "build script",
                       "image build", "image archive", "image", "network",
                       "volume", "solution image", "service type"} =>
        last.err.kind = "CriticalException"

----------------------------------------------------------------------------
(* The flag verifier on its own: configurations and candidates drawn from  *)
(* bounded sets, validate_flag applied to them.                            *)

FlagChoices ==
    {[type |-> "text", flag |-> <<"a">>],
     [type |-> "text", flag |-> <<"a", "b">>],
     [type |-> "regex", flag |-> <<"b", "b">>]}

FlagConfigs ==
    {[BaseConfig EXCEPT !.flag_format_prefix = p, !.flag_format_suffix = sfx,
                        !.flags = fs] :
        p \in {<<>>, <<"{">>},
        sfx \in {<<>>, <<"}">>},
        fs \in SeqsUpTo(FlagChoices, MaxFlags)}

Candidates == SeqsUpTo({"a", "b", "{", "}"}, MaxCandidateLen)

InitFlag ==
    /\ config \in FlagConfigs
    /\ engine = Engine({}, {}, {})
    /\ ncalls = 0
    /\ last = [op |-> "none", submitted_flag |-> <<>>, valid |-> FALSE]

ValidateFlag ==
    \E submitted_flag \in Candidates :
        /\ ncalls = 0
        /\ ncalls' = 1
        /\ last' = [op |-> "validate_flag", submitted_flag |-> submitted_flag,
                    valid |-> validate_flag(config, submitted_flag)]
        /\ UNCHANGED <<config, engine>>

NextFlag == ValidateFlag

SpecFlag == InitFlag /\ [][NextFlag]_vars

\* the candidate with exactly the leading prefix and trailing suffix removed
Unwrapped(cfg, s) ==
    SubSeq(s, Len(cfg.flag_format_prefix) + 1, Len(s) - Len(cfg.flag_format_suffix))

Wrapped(cfg, s) ==
    /\ StartsWith(s, cfg.flag_format_prefix)
    /\ EndsWith(s, cfg.flag_format_suffix)
    /\ Len(s) >= Len(cfg.flag_format_prefix) + Len(cfg.flag_format_suffix)

\* C7 (as claimed): with a non-empty prefix P and any suffix S, the empty
\* one included, a candidate that does not start with P or does not end with
\* S is rejected; P + F + S is accepted for every text flag F; P + G + S is
\* rejected when G matches no flag.
C7_WrappedFlagAccepted ==
    (last.op = "validate_flag" /\ config.flag_format_prefix # <<>>) =>
        /\ ~Wrapped(config, last.submitted_flag) => ~last.valid
        /\ \A i \in DOMAIN config.flags :
              (/\ config.flags[i].type = "text"
               /\ last.submitted_flag = config.flag_format_prefix
                     \o config.flags[i].flag \o config.flag_format_suffix)
                 => last.valid
        /\ (/\ Wrapped(config, last.submitted_flag)
            /\ \A i \in DOMAIN config.flags :
                  ~FlagMatches(config.flags[i], Unwrapped(config, last.submitted_flag)))
              => ~last.valid

----------------------------------------------------------------------------
(* The service formatter on its own.                                       *)

TcpOverride == [type |-> "tcp", user_display |-> <<"ncat ", "{host}", ":", "{port}">>]

SshAlias == [type |-> "ssh", user_display |-> <<"ssh ", "{host}">>]

FormatConfigs ==
    {[BaseConfig EXCEPT !.custom_service_types = ts] :
        ts \in SeqsUpTo({SshType, SshAlias, TcpOverride}, MaxCustomTypes)}

FormatKwargs ==
    {<<>>, ServiceKwargs(50000), ServiceKwargs(12345), <<<<"host", "ctf.example">>>>}

InitFormat ==
    /\ config \in FormatConfigs
    /\ engine = Engine({}, {}, {})
    /\ ncalls = 0
    /\ last = [op |-> "none", service_type |-> "", kwargs |-> <<>>, err |-> NoErr,
               value |-> <<>>]

FormatUserService ==
    \E service_type \in {"website", "tcp", "ssh", "udp"}, kwargs \in FormatKwargs :
        LET out == format_user_service(config, service_type, kwargs)
        IN  /\ ncalls = 0
            /\ ncalls' = 1
            /\ last' = [op |-> "format_user_service", service_type |-> service_type,
                        kwargs |-> kwargs, err |-> out.err, value |-> out.value]
            /\ UNCHANGED <<config, engine>>

NextFormat == FormatUserService

SpecFormat == InitFormat /\ [][NextFormat]_vars

\* the custom types of a configuration that carry a given type key
CustomOfType(cfg, service_type) ==
    SelectSeq(cfg.custom_service_types, LAMBDA t : t.type = service_type)

\* C9 (as claimed): website and tcp always resolve, and a custom service
\* type with the type key of a built-in overrides it: the string is rendered
\* from the custom type's user_display.
C9_CustomOverridesBuiltin ==
    last.op = "format_user_service" =>
        /\ last.service_type \in {"website", "tcp"} => last.err.kind = "ok"
        /\ CustomOfType(config, last.service_type) # <<>> =>
              /\ last.err.kind = "ok"
              /\ last.value =
                    ReplaceAll(CustomOfType(config, last.service_type)[1].user_display,
                               last.kwargs)

----------------------------------------------------------------------------
(* The name deriver on its own: titles, container names and challenge ids  *)
(* drawn from bounded sets, short ones and ones longer than the cuts.      *)

RECURSIVE Repeat(_, _)
Repeat(unit, n) == IF n = 0 THEN <<>> ELSE unit \o Repeat(unit, n - 1)

\* titles of 0 to 42 characters: spaces, capitals, a disallowed character
\* and a leading underscore
NameTitles ==
    {head \o Repeat(<<"M", "e">>, n) :
        head \in SeqsUpTo({"A", " ", "!", "_"}, MaxNameLen), n \in {0, 16, 20}}

\* container names of 0 to 22 characters; <<>> is "no container name"
NameContainers ==
    {head \o Repeat(<<"d", "B">>, n) :
        head \in SeqsUpTo({"W", "-", "!"}, MaxNameLen), n \in {0, 10}}

InitName ==
    /\ config \in [title : NameTitles, container_name : NameContainers,
                   chall_id : {<<>>, ChallId}]
    /\ engine = Engine({}, {}, {})
    /\ ncalls = 0
    /\ last = [op |-> "none", name |-> <<>>]

CreateDockerName ==
    /\ ncalls = 0
    /\ ncalls' = 1
    /\ last' = [op |-> "create_docker_name",
                name |-> create_docker_name(config.title, config.container_name,
                                            config.chall_id)]
    /\ UNCHANGED <<config, engine>>

NextName == CreateDockerName

SpecName == InitName /\ [][NextName]_vars

\* the pieces of a name between its underscores-as-joiners: the name ends
\* with "_" and 16 characters; what precedes is the title piece, or the
\* title piece, "_" and the container piece
NameDigest(name) == SubSeq(name, Len(name) - 15, Len(name))

NameFront(name) == SubSeq(name, 1, Len(name) - 17)

\* what is left of s once spaces are underscores, characters outside
\* [A-Za-z0-9_.-] are gone and leading "_", "." and "-" are dropped
Kept(s) ==
    LET mapped == [i \in DOMAIN s |-> IF s[i] = " " THEN "_" ELSE s[i]]
        keep == SelectSeq(mapped, LAMBDA c : c \in TagChars)
        lead == {i \in DOMAIN keep : \A j \in 1..i : keep[j] \in {"_", ".", "-"}}
    IN  SubSeq(keep, Cardinality(lead) + 1, Len(keep))

SameIgnoringCase(a, b) ==
    /\ Len(a) = Len(b)
    /\ \A i \in DOMAIN a : LowerChar(a[i]) = LowerChar(b[i])

\* C11: create_docker_name returns at most 66 characters with a container
\* name and at most 49 without; the result is the sanitised title cut to 32
\* characters, the sanitised container name cut to 16 (when given) and a
\* digest piece of 16 hexadecimal digits, joined by underscores; every
\* character of it is in [a-z0-9_.-].
C11_NameBoundedAndClean ==
    last.op = "create_docker_name" =>
        LET title_piece == SubSeq(Kept(config.title), 1,
                                  Min(32, Len(Kept(config.title))))
            container_piece == SubSeq(Kept(config.container_name), 1,
                                      Min(16, Len(Kept(config.container_name))))
        IN  /\ Len(last.name) >= 17
            /\ Len(last.name) <= IF config.container_name # <<>> THEN 66 ELSE 49
            /\ \A i \in DOMAIN last.name : last.name[i] \in LowerTagChars
            /\ \A i \in DOMAIN NameDigest(last.name) :
                  NameDigest(last.name)[i] \in Range(HexSeq)
            /\ last.name[Len(last.name) - 16] = "_"
            /\ IF config.container_name # <<>>
               THEN /\ Len(NameFront(last.name))
                          = Len(title_piece) + 1 + Len(container_piece)
                    /\ SameIgnoringCase(
                          SubSeq(NameFront(last.name), 1, Len(title_piece)), title_piece)
                    /\ NameFront(last.name)[Len(title_piece) + 1] = "_"
                    /\ SameIgnoringCase(
                          SubSeq(NameFront(last.name), Len(title_piece) + 2,
                                 Len(NameFront(last.name))), container_piece)
               ELSE SameIgnoringCase(NameFront(last.name), title_piece)

\* a title and a container name both longer than their cuts, with capitals,
\* spaces and disallowed characters: the name has the full 66 characters
C11_Witness ==
    /\ last.op = "create_docker_name"
    /\ Len(Kept(config.title)) > 32
    /\ Len(Kept(config.container_name)) > 16
    /\ Len(config.title) > Len(Kept(config.title))
    /\ Len(last.name) = 66

----------------------------------------------------------------------------
(* Frame, order and failure properties of the three invocations.           *)

\* C12 (as claimed): start_chall and start_solution leave the configuration
\* equal to what it was before the call; a service without external_port
\* before the call has none afterwards.
C12_ConfigReadOnly ==
    last.op \in {"start_chall", "start_solution"} => config = last.cfg0

\* the step of build_chall a logged call belongs to
BuildStage(cfg, c) ==
    CASE c.op = "from_env" -> 0
      [] c.op = "Popen" -> 1
      [] c.op = "api.build" /\ c.tag # SolutionTag(cfg) -> 2
      [] c.op \in {"networks.list", "networks.create"} -> 3
      [] c.op \in {"volumes.list", "volumes.create"} -> 4
      [] OTHER -> 5

\* the position, among the declared containers, of the one a tag was derived for
DeclaredIndex(cfg, tag) ==
    CHOOSE i \in DOMAIN cfg.deployment.containers :
        ContainerTag(cfg, cfg.deployment.containers[i]) = tag

\* C13: in every build_chall execution the client is obtained before the
\* build script runs, the script before any image build, container images
\* are built in declared order, networks are created after the last
\* container image build, volumes after networks, the solution image last.
C13_BuildOrder ==
    last.op = "build_chall" =>
        \A i, j \in DOMAIN last.calls :
            i < j =>
                LET a == BuildStage(last.cfg0, last.calls[i])
                    b == BuildStage(last.cfg0, last.calls[j])
                IN  /\ a <= b
                    /\ (a = b /\ a \in {0, 1, 5}) => FALSE
                    /\ (a = 2 /\ b = 2) =>
                          DeclaredIndex(last.cfg0, last.calls[i].tag)
                              < DeclaredIndex(last.cfg0, last.calls[j].tag)

\* a build with a script, two container images, a network and a volume to
\* create and a solution image
C13_Witness ==
    /\ last.op = "build_chall"
    /\ last.err.kind = "ok"
    /\ CountOp(last.calls, "from_env") = 1
    /\ CountOp(last.calls, "Popen") = 1
    /\ CountOp(last.calls, "api.build") = 3
    /\ CountOp(last.calls, "networks.create") >= 1
    /\ CountOp(last.calls, "volumes.create") >= 1
    /\ BuildStage(last.cfg0, last.calls[Len(last.calls)]) = 5

\* the names for which op was called before the i-th call of the log
NamesBefore(calls, op, i) ==
    {calls[j].name : j \in {k \in 1..(i - 1) : calls[k].op = op}}

\* C14 (as claimed): after a successful build_chall on a configuration with
\* a deployment every declared network and volume exists in the engine, a
\* create is issued only for a name absent from the engine at the moment of
\* the create call, also for a volume name declared more than once, and a
\* second build on the unchanged engine creates no network and no volume.
C14_CreateOnlyAbsent ==
    (last.op = "build_chall" /\ last.err.kind = "ok" /\ last.cfg0.deployment.present) =>
        /\ \A n \in DOMAIN last.cfg0.deployment.networks :
              last.cfg0.deployment.networks[n].name \in engine.networks
        /\ \A v \in DOMAIN last.cfg0.deployment.volumes :
              last.cfg0.deployment.volumes[v] \in engine.volumes
        /\ \A i \in DOMAIN last.calls :
              /\ last.calls[i].op = "networks.create" =>
                    last.calls[i].name \notin
                        last.eng0.networks
                            \cup NamesBefore(last.calls, "networks.create", i)
              /\ last.calls[i].op = "volumes.create" =>
                    last.calls[i].name \notin
                        last.eng0.volumes
                            \cup NamesBefore(last.calls, "volumes.create", i)
        /\ \A env \in BuildEnvs :
              LET again == build_chall(last.cfg0, engine, env)
              IN  /\ CountOp(again.calls, "networks.create") = 0
                  /\ CountOp(again.calls, "volumes.create") = 0

\* build_chall got as far as running the build script
ScriptRan == last.op = "build_chall" /\ CountOp(last.calls, "Popen") = 1

\* C15: a build script that exits with a non-zero code makes build_chall
\* fail with a fatal error carrying that code, and none of the later steps
\* (image builds, network and volume creation, solution image) is performed;
\* with exit code 0 the build continues.
C15_ScriptExitCode ==
    ScriptRan =>
        IF last.env.returncode # 0
        THEN /\ last.err.kind = "CriticalException"
             /\ last.err.what = "build script"
             /\ last.err.code = last.env.returncode
             /\ last.calls[Len(last.calls)].op = "Popen"
             /\ engine = last.eng0
        ELSE /\ last.err.what # "build script"
             /\ (/\ last.cfg0.deployment.present
                 /\ last.cfg0.deployment.containers # <<>>
                 /\ PathKind(last.cfg0.deployment.containers[1].image) = "dir")
                    => "api.build" \in CallOps(last.calls)
             /\ (~last.cfg0.deployment.present /\ last.cfg0.solution_image = "")
                    => (last.err.kind = "ok" /\ last.ret.did_something)

\* the script fails where containers, networks, a volume and a solution
\* image were still to be built
C15_Witness ==
    /\ ScriptRan
    /\ last.env.returncode = 2
    /\ last.cfg0.deployment.present
    /\ last.cfg0.solution_image # ""
    /\ MissingVolumes(last.cfg0, last.eng0) # {}

UnsupportedType(cfg) == cfg.deployment.present /\ cfg.deployment.type # "docker"

NothingToStart(cfg) == ~cfg.deployment.present \/ cfg.deployment.containers = <<>>

FailedOnType ==
    /\ last.err.kind = "CriticalException"
    /\ last.err.what = "deployment type"
    /\ last.calls = <<>>
    /\ engine = last.eng0

\* C16: with a deployment of a type other than "docker", build_chall fails
\* fatally before it obtains a client, runs the build script or changes the
\* engine; start_chall with at least one declared container fails fatally
\* before it obtains a client and creates no container; with no deployment
\* or no containers start_chall returns empty results without error.
C16_UnsupportedTypeFailsFirst ==
    /\ (last.op = "build_chall" /\ UnsupportedType(last.cfg0)) => FailedOnType
    /\ (last.op = "start_chall" /\ UnsupportedType(last.cfg0)
            /\ ~NothingToStart(last.cfg0)) => FailedOnType
    /\ (last.op = "start_chall" /\ NothingToStart(last.cfg0)) =>
          /\ last.err.kind = "ok"
          /\ last.ret.containers = <<>>
          /\ last.ret.service_strings = <<>>
          /\ last.calls = <<>>
          /\ engine = last.eng0

\* build_chall on an unsupported type with a build script to run and a
\* solution image to build, the engine being reachable
C16_Witness ==
    /\ last.op = "build_chall"
    /\ UnsupportedType(last.cfg0)
    /\ "build_script" \in DOMAIN last.cfg0.custom
    /\ last.cfg0.solution_image = "solve"
    /\ last.env.up

\* the calls on containers start_chall makes for the declared container i,
\* the engine holding base containers before the invocation
CallsFor(cfg, i, base) ==
    LET c == cfg.deployment.containers[i]
        tag == ContainerTag(cfg, c)
        mine == SelectSeq(cfg.deployment.networks, LAMBDA n : c.name \in n.members)
    IN  <<Call("containers.create", tag, "", base + i)>>
          \o [k \in DOMAIN mine |-> Call("network.connect", <<>>, mine[k].name, base + i)]
          \o <<Call("container.start", tag, "", base + i)>>

RECURSIVE CallsUpTo(_, _, _)
CallsUpTo(cfg, n, base) ==
    IF n = 0 THEN <<>> ELSE CallsUpTo(cfg, n - 1, base) \o CallsFor(cfg, n, base)

ContainerCalls(calls) == SelectSeq(calls, LAMBDA c : c.op \in EngineOps)

\* C17: start_chall creates each container, attaches it to exactly the
\* declared networks whose member list has its name, then starts it;
\* container i is started before container i+1 is created; on success the
\* returned handles are the declared containers, once each, in declared
\* order, and every one of them has been started.
C17_CreateAttachStart ==
    last.op = "start_chall" =>
        LET base == Len(last.eng0.containers)
            n == Len(last.cfg0.deployment.containers)
            all == CallsUpTo(last.cfg0, n, base)
            made == ContainerCalls(last.calls)
        IN  /\ Len(made) <= Len(all)
            /\ made = SubSeq(all, 1, Len(made))
            /\ (last.err.kind = "ok" /\ made # <<>>) =>
                  /\ made = all
                  /\ last.ret.containers = [i \in 1..n |-> base + i]
                  /\ \A i \in 1..n :
                        LET c == last.cfg0.deployment.containers[i]
                        IN  /\ engine.containers[base + i].started
                            /\ engine.containers[base + i].image
                                  = ContainerTag(last.cfg0, c)
                            /\ engine.containers[base + i].networks
                                  = {last.cfg0.deployment.networks[k].name :
                                       k \in {j \in DOMAIN last.cfg0.deployment.networks :
                                                c.name \in
                                                  last.cfg0.deployment.networks[j].members}}

\* two containers started, the first attached to two networks and the
\* second to one
C17_Witness ==
    /\ last.op = "start_chall"
    /\ last.err.kind = "ok"
    /\ Len(last.ret.containers) = 2
    /\ CountOp(last.calls, "network.connect") = 3
    /\ engine.containers[last.ret.containers[2]].networks = {"backend"}

----------------------------------------------------------------------------
(* The invocations against an engine that may fail a call on a container.  *)

\* a service whose explicit external port is the allocator's first port
FixedAtFirstPort ==
    [type |-> "tcp", internal_port |-> 5432, external_port |-> FirstPort]

\* two containers on two networks, the second with or without a service of
\* an unknown type or with an explicit port; one container with a volume;
\* all with a solution image
FaultConfigs ==
    {[BaseConfig EXCEPT !.deployment = d, !.solution_image = "solve"] :
        d \in {Deployment("docker",
                          <<Container(Web, "web", <<AutoTcp>>, <<>>),
                            Container(Db, "db", <<>>, <<>>)>>, Networks, <<>>),
               Deployment("docker",
                          <<Container(Web, "web", <<AutoTcp>>, <<>>),
                            Container(Db, "db", <<AutoSsh>>, <<>>)>>, Networks, <<>>),
               Deployment("docker",
                          <<Container(Web, "web", <<AutoTcp>>, <<>>)>>,
                          Networks, <<"data">>),
               Deployment("docker",
                          <<Container(Web, "web", <<AutoTcp>>, <<>>),
                            Container(Db, "db", <<FixedAtFirstPort>>, <<>>)>>,
                          Networks, <<>>)}}

FaultEngines ==
    {Engine({}, {}, {}), Engine(AllImages, {"frontend", "backend"}, {"data"})}

InitFault ==
    /\ config \in FaultConfigs
    /\ engine \in FaultEngines
    /\ ncalls = 0
    /\ last = [op |-> "none", cfg0 |-> config, eng0 |-> engine,
               env |-> Env(TRUE, 0, 0, 0), calls |-> <<>>, err |-> NoErr, ret |-> NoRet]

StartChallFaulty ==
    \E env \in FaultEnvs : Invoke("start_chall", env, start_chall(config, engine, env))

StartSolutionFaulty ==
    \E env \in FaultEnvs :
        Invoke("start_solution", env, start_solution(config, engine, env))

NextFault == BuildChall \/ StartChallFaulty \/ StartSolutionFaulty

SpecFault == InitFault /\ [][NextFault]_vars

\* the positions in the log of the calls with this op that took effect: all
\* but a last call that raised
Effective(op) ==
    {i \in DOMAIN last.calls :
        /\ last.calls[i].op = op
        /\ ~(i = Len(last.calls)
               /\ last.err.kind \in {"APIError", "CriticalException"}
               /\ last.err.what \in {"engine", "image build"})}

\* C18: when start_chall fails at the k-th declared container, on an unknown
\* service type or an engine error at create, connect or start, the
\* containers 1..k-1 it has started remain started and none is stopped or
\* removed; when build_chall fails, the images, networks and volumes made by
\* its earlier steps remain in the engine.
C18_NoRollback ==
    /\ (last.op = "start_chall" /\ last.err.kind # "ok") =>
          /\ Len(engine.containers)
                = Len(last.eng0.containers) + Cardinality(Effective("containers.create"))
          /\ SubSeq(engine.containers, 1, Len(last.eng0.containers))
                = last.eng0.containers
          /\ \A i \in Effective("container.start") :
                engine.containers[last.calls[i].idx].started
          /\ \A i \in Effective("network.connect") :
                last.calls[i].name \in engine.containers[last.calls[i].idx].networks
          /\ CallOps(last.calls) \subseteq
                {"from_env", "images.list", "networks.list", "volumes.list"}
                    \cup EngineOps
    /\ (last.op = "build_chall" /\ last.err.kind # "ok") =>
          /\ last.eng0.images \subseteq engine.images
          /\ last.eng0.networks \subseteq engine.networks
          /\ last.eng0.volumes \subseteq engine.volumes
          /\ \A i \in Effective("api.build") :
                Latest(last.calls[i].tag) \in engine.images
          /\ \A i \in Effective("networks.create") :
                last.calls[i].name \in engine.networks
          /\ \A i \in Effective("volumes.create") :
                last.calls[i].name \in engine.volumes

\* the engine fails the attachment of the second container after the first
\* has been started
C18_Witness ==
    /\ last.op = "start_chall"
    /\ last.err.kind = "APIError"
    /\ last.calls[Len(last.calls)].op = "network.connect"
    /\ Cardinality(Effective("container.start")) = 1
    /\ Len(engine.containers) = Len(last.eng0.containers) + 2
    /\ engine.containers[Len(last.eng0.containers) + 1].started

----------------------------------------------------------------------------
(* Two invokers on one engine, each building and then starting its own     *)
(* challenge, their engine calls interleaved.  config[p] is the             *)
(* configuration object of invoker p, last[p] its position and locals.     *)

Procs == {1, 2}

RaceTitle(p) == IF p = 1 THEN Title ELSE <<"W", "e", "b", " ", "2">>

RaceDeployments ==
    {Deployment("docker", <<Container(Web, "web", <<AutoTcp>>, <<>>)>>,
                <<[name |-> "frontend", members |-> {Web}]>>, <<>>),
     Deployment("docker", <<Container(Web, "web", <<FixedWebsite, AutoTcp>>, <<>>),
                            Container(Db, "db", <<AutoTcp>>, <<>>)>>,
                Networks, <<"data">>)}

RaceConfigs(p) ==
    {[BaseConfig EXCEPT !.title = RaceTitle(p), !.deployment = d] :
        d \in RaceDeployments}

\* the locals of an invocation between two of its steps; the engine is not
\* among them
NoEngine == Engine({}, {}, {})

Locals(st) == [st EXCEPT !.eng = NoEngine]

InitRace ==
    /\ config \in {c \in [Procs -> UNION {RaceConfigs(p) : p \in Procs}] :
                      \A p \in Procs : c[p] \in RaceConfigs(p)}
    /\ engine = Engine({}, {}, {})
    /\ ncalls = 0
    /\ last = [p \in Procs |->
                 [pc |-> "build", i |-> 0, cfg0 |-> config[p], network_list |-> {},
                  st |-> [cfg |-> config[p], eng |-> NoEngine, calls |-> <<>>,
                          err |-> NoErr, did |-> FALSE, client |-> FALSE,
                          containers |-> <<>>, service_strings |-> <<>>,
                          available_port |-> 0, fault |-> 0]]]

\* invoker p takes one step from pc: out is the locals and engine after it
Step(p, out, pc, i) ==
    /\ ncalls' = ncalls + 1
    /\ engine' = out.eng
    /\ config' = [config EXCEPT ![p] = out.cfg]
    /\ last' = [last EXCEPT ![p].st = Locals(out),
                            ![p].pc = IF Ok(out) THEN pc ELSE "failed",
                            ![p].i = i]

Here(p) == [last[p].st EXCEPT !.eng = engine]

\* build_chall up to the last container image
BuildImages(p) ==
    /\ last[p].pc = "build"
    /\ LET env == Env(TRUE, 0, 0, 0)
           s1 == BuildPrologue(config[p], Here(p), env)
           s2 == IF Ok(s1) /\ "build_script" \in DOMAIN config[p].custom
                 THEN RunBuildScript(config[p], s1, env) ELSE s1
           s3 == IF Ok(s2)
                 THEN BuildContainers(config[p], 1, [s2 EXCEPT !.did = TRUE], env)
                 ELSE s2
       IN  Step(p, s3, "networks.list", 0)

\* network_list = [network.name for network in client.networks.list()]
ListNetworks(p) ==
    /\ last[p].pc = "networks.list"
    /\ ncalls' = ncalls + 1
    /\ last' = [last EXCEPT
                  ![p].st = Logged(@, Call("networks.list", <<>>, "", 0)),
                  ![p].network_list = engine.networks,
                  ![p].pc = IF config[p].deployment.networks = <<>>
                            THEN "volumes" ELSE "network",
                  ![p].i = 1]
    /\ UNCHANGED <<config, engine>>

\* one iteration of the network loop of build_chall
CreateNetwork(p) ==
    /\ last[p].pc = "network"
    /\ Step(p, CreateNetworks(<<config[p].deployment.networks[last[p].i]>>,
                              last[p].network_list, Here(p)),
            IF last[p].i = Len(config[p].deployment.networks)
            THEN "volumes" ELSE "network",
            last[p].i + 1)

\* the volumes and the solution image of build_chall
BuildRest(p) ==
    /\ last[p].pc = "volumes"
    /\ LET env == Env(TRUE, 0, 0, 0)
           s1 == CreateVolumes(config[p].deployment.volumes, engine.volumes,
                               Logged(Here(p), Call("volumes.list", <<>>, "", 0)))
           s2 == IF Ok(s1) /\ config[p].solution_image # ""
                 THEN BuildSolution(config[p], s1, env) ELSE s1
       IN  Step(p, s2, "start", 0)

\* start_chall up to available_port = 50000
BeginStart(p) ==
    /\ last[p].pc = "start"
    /\ LET s0 == [Here(p) EXCEPT !.available_port = FirstPort]
           s1 == get_docker_client(s0, Env(TRUE, 0, 0, 0))
           s2 == IF Ok(s1) THEN CheckPrerequisites(config[p], s1) ELSE s1
       IN  IF NothingToStart(config[p]) THEN Step(p, s0, "done", 0)
           ELSE IF config[p].deployment.type # "docker"
           THEN Step(p, Raise(s0, Critical("deployment type", <<>>,
                                           config[p].deployment.type, 0)), "failed", 0)
           ELSE Step(p, s2, "container", 1)

\* one iteration of the container loop of start_chall
StartOne(p) ==
    /\ last[p].pc = "container"
    /\ Step(p, StartContainer(Here(p), last[p].i),
            IF last[p].i = Len(config[p].deployment.containers)
            THEN "done" ELSE "container",
            last[p].i + 1)

NextRace ==
    \E p \in Procs :
        \/ BuildImages(p)
        \/ ListNetworks(p)
        \/ CreateNetwork(p)
        \/ BuildRest(p)
        \/ BeginStart(p)
        \/ StartOne(p)

SpecRace == InitRace /\ [][NextRace]_vars

\* the services of invoker p that had no external_port when it was handed
\* its configuration and have one now
AutoAssigned(p) ==
    {pos \in Positions(last[p].cfg0) :
        /\ LacksPort(last[p].cfg0, pos)
        /\ ~LacksPort(config[p], pos)}

\* the networks invoker p has asked the engine to create
CreatedBy(p) ==
    {last[p].st.calls[k].name :
        k \in {j \in DOMAIN last[p].st.calls :
                 last[p].st.calls[j].op = "networks.create"}}

\* the declared networks whose loop iteration invoker p has completed
Processed(p) ==
    {config[p].deployment.networks[k].name :
        k \in {j \in DOMAIN config[p].deployment.networks :
                 last[p].pc # "network" \/ j < last[p].i}}

\* C19: the allocator of a start invocation begins at 50000 whatever another
\* invocation has assigned, so two invocations on different challenges both
\* assign host port 50000; a build invocation tests each declared network
\* against the list it took, without a lock, so two concurrent builds
\* declaring the same absent network both issue a create for it.
C19_PrivateAllocatorNoLock ==
    \A p \in Procs :
        /\ last[p].pc \in {"container", "done"} =>
              /\ last[p].st.available_port
                    = FirstPort + Cardinality(AutoAssigned(p))
              /\ {ServiceAt(config[p], pos).external_port : pos \in AutoAssigned(p)}
                    = FirstPort..(last[p].st.available_port - 1)
        /\ last[p].pc \in {"network", "volumes", "start", "container", "done"} =>
              CreatedBy(p) = Processed(p) \ last[p].network_list

\* both invokers have issued a create for network "frontend" and both have
\* assigned host port 50000 to a service
C19_Witness ==
    \A p \in Procs :
        /\ "frontend" \in CreatedBy(p)
        /\ \E pos \in AutoAssigned(p) :
              ServiceAt(config[p], pos).external_port = FirstPort

----------------------------------------------------------------------------
(* start_chall and start_solution on one configuration.                    *)

\* the part of the solver's command that stands for the container services
ContainerPart(cfg, command) ==
    SubSeq(command, Len(cfg.predefined_services) + 1, Len(command))

\* what start_solution does on cfg with the engine reachable, and the
\* command it hands to the solution container
SolutionOn(cfg) == start_solution(cfg, engine, Env(TRUE, 0, 0, 0))

CommandOf(out) == out.eng.containers[out.ret.containers[1]].command

\* C20 (as claimed): for one configuration with a docker deployment and a
\* built solution image, the service strings start_solution passes to the
\* solver for the container services are the service strings start_chall
\* returns, whichever of the two is called first, on the same configuration
\* object or on a fresh copy of it.
C20_SolverSeesStartedPorts ==
    /\ (/\ last.op = "start_chall"
        /\ last.err.kind = "ok"
        /\ ~NothingToStart(last.cfg0)
        /\ last.cfg0.solution_image # ""
        /\ SolutionTag(last.cfg0) \in TagList(engine)) =>
          \A cfg \in {config, last.cfg0} :
              /\ SolutionOn(cfg).err.kind = "ok"
              /\ ContainerPart(cfg, CommandOf(SolutionOn(cfg)))
                    = last.ret.service_strings
    /\ (/\ last.op = "start_solution"
        /\ last.err.kind = "ok"
        /\ last.cfg0.solution_image # "") =>
          \A cfg \in {config, last.cfg0} :
              LET out == start_chall(cfg, engine, Env(TRUE, 0, 0, 0))
              IN  out.err.kind = "ok" =>
                    out.ret.service_strings
                        = ContainerPart(last.cfg0, CommandOf([eng |-> engine, ret |-> last.ret]))

----------------------------------------------------------------------------
(* Host ports of one start_chall invocation.                               *)

\* the services and extra exposed ports of a deployment, each as
\* <<kind, container, index>>
PortEntries(cfg) ==
    {<<"service", p[1], p[2]>> : p \in Positions(cfg)}
      \cup UNION {{<<"extra", ci, ei>> :
                      ei \in DOMAIN cfg.deployment.containers[ci].extra_exposed_ports} :
                    ci \in DOMAIN cfg.deployment.containers}

EntryAt(cfg, e) ==
    IF e[1] = "service" THEN ServiceAt(cfg, <<e[2], e[3]>>)
    ELSE cfg.deployment.containers[e[2]].extra_exposed_ports[e[3]]

\* the entries that carry an external port
Bound(cfg) == {e \in PortEntries(cfg) : "external_port" \in DOMAIN EntryAt(cfg, e)}

PairwiseDistinct(cfg) ==
    \A e, f \in Bound(cfg) :
        e # f => EntryAt(cfg, e).external_port # EntryAt(cfg, f).external_port

\* C21 (as claimed): in one successful start_chall invocation on a
\* deployment whose explicitly configured external ports are pairwise
\* distinct, the host ports of all services and extra exposed ports are
\* pairwise distinct: the allocator hands out no port that is configured
\* explicitly in the same deployment.
C21_HostPortsDistinct ==
    (/\ last.op = "start_chall"
     /\ last.err.kind = "ok"
     /\ ~NothingToStart(last.cfg0)
     /\ PairwiseDistinct(last.cfg0)) => PairwiseDistinct(config)

----------------------------------------------------------------------------
(* start_solution without a deployment.                                    *)

\* C22 (as claimed): with the solution image built and the engine
\* reachable, start_solution completes on every configuration with a
\* solution image whose service types are known: it creates and starts the
\* solution container; with no deployment declared the command of that
\* container is the predefined-service strings only.
C22_SolutionStartsWithoutDeployment ==
    (/\ last.op = "start_solution"
     /\ last.cfg0.solution_image # ""
     /\ last.env.up
     /\ SolutionTag(last.cfg0) \in TagList(last.eng0)
     /\ last.err.what # "service type") =>
        /\ last.err.kind = "ok"
        /\ Len(last.ret.containers) = 1
        /\ engine.containers[last.ret.containers[1]].started
        /\ ~last.cfg0.deployment.present =>
              engine.containers[last.ret.containers[1]].command
                  = RenderedPredefined(last.cfg0)

====
